---------------------------- MODULE Spec2Model ----------------------------
(***************************************************************************)
(* A model of package idast (sourcegraph/go-idast): the NodeId path type   *)
(* (nodeid.go), the depth-first walker Walk/walk/Inspect (walk.go) and the *)
(* Map collector (nodeid.go).                                              *)
(*                                                                         *)
(* A NodeId is a Go slice: a window (arr, len) on a backing array that     *)
(* other slices may share.  walk receives its NodeId BY VALUE, so a frame  *)
(* owns its length but shares the backing array with its caller; the       *)
(* model keeps the arrays in `heap` so that this sharing is visible.       *)
(***************************************************************************)
EXTENDS Integers, Sequences, FiniteSets, TLC

\* ------------------------------------------------------------------ bounds
\* longest child list (arguments, identifier names, comments) of an input tree
MaxLen == 3
\* most files in the Files map of an input Package
MaxFiles == 2
\* most nodes at which the pruning visitor returns nil
MaxPruned == 1

\* capacity of the path allocated by Walk: make(NodeId, 0, 100)
IdCap == 100

\* the nil visitor, and the nil node of the sentinel call Visit(nil, id)
NilV == 0
NilNode == 0

\* --------------------------------------------------------------- strings
Max(a, b) == IF a >= b THEN a ELSE b

Digit(d) ==
  CASE d = 0 -> "0" [] d = 1 -> "1" [] d = 2 -> "2" [] d = 3 -> "3"
    [] d = 4 -> "4" [] d = 5 -> "5" [] d = 6 -> "6" [] d = 7 -> "7"
    [] d = 8 -> "8" [] d = 9 -> "9"

\* strconv.Itoa for the non-negative indices of a range loop
RECURSIVE Itoa(_)
Itoa(i) == IF i < 10 THEN Digit(i) ELSE Itoa(i \div 10) \o Digit(i % 10)

\* strings.Join(labels, sep)
RECURSIVE Join(_, _)
Join(labels, sep) ==
  IF Len(labels) = 0 THEN ""
  ELSE IF Len(labels) = 1 THEN labels[1]
  ELSE labels[1] \o sep \o Join(Tail(labels), sep)

\* NodeId.String applied to the labels of a path
String(labels) == Join(labels, "/")

RECURSIVE Flatten(_)
Flatten(ss) == IF Len(ss) = 0 THEN <<>> ELSE Head(ss) \o Flatten(Tail(ss))

\* ---------------------------------------------------- NodeId (Go slices)
\* A slice is [arr, len]; heap[arr] is [cap, data], data holding the slots of
\* the backing array written so far.
Read(h, s) == SubSeq(h[s.arr].data, 1, s.len)

\* a mutant of MakeId: make(NodeId, 1, c), a path born with one empty label
MakeIdLen(h, c) ==
  [h |-> Append(h, [cap |-> c, data |-> <<"">>]),
   s |-> [arr |-> Len(h) + 1, len |-> 1]]

\* make(NodeId, 0, c)
MakeId(h, c) ==
  [h |-> Append(h, [cap |-> c, data |-> <<>>]),
   s |-> [arr |-> Len(h) + 1, len |-> 0]]

\* The capacity append gives a reallocated array: the language only promises
\* "sufficiently large"; gc doubles small slices.  pol picks the allocator.
GrowCap(old, need, pol) == IF pol = "exact" THEN need ELSE Max(need, 2 * old)

\* append(s, cs...): in place when the capacity allows (overwriting whatever
\* another slice on the same array left there), else into a fresh array.
append(h, s, cs, pol) ==
  IF s.len + Len(cs) <= h[s.arr].cap
  THEN [h |-> [h EXCEPT ![s.arr].data = SubSeq(@, 1, s.len) \o cs
                                 \o SubSeq(@, s.len + Len(cs) + 1, Len(@))],
        s |-> [s EXCEPT !.len = @ + Len(cs)]]
  ELSE [h |-> Append(h, [cap  |-> GrowCap(h[s.arr].cap, s.len + Len(cs), pol),
                         data |-> Read(h, s) \o cs]),
        s |-> [arr |-> Len(h) + 1, len |-> s.len + Len(cs)]]

\* NodeId.push: *nid = append(*nid, c)
push(h, s, c, pol) == append(h, s, <<c>>, pol)

\* NodeId.pop: *nid = (*nid)[:len(*nid)-1]
pop(s) == [s EXCEPT !.len = @ - 1]

\* a mutant of dup: the slice itself, sharing its backing array
dupAlias(h, s) == [h |-> h, s |-> s]

\* NodeId.dup: a copy in a fresh array of capacity len
dup(h, s) ==
  [h |-> Append(h, [cap |-> s.len, data |-> Read(h, s)]),
   s |-> [arr |-> Len(h) + 1, len |-> s.len]]

\* a mutant of pushed: the new labels alone, without the receiver's
pushedBare(h, s, cs, pol) ==
  [h |-> Append(h, [cap |-> Len(cs), data |-> cs]),
   s |-> [arr |-> Len(h) + 1, len |-> Len(cs)]]

\* NodeId.pushed: append(nid.dup(), cs...)
pushed(h, s, cs, pol) == LET d == dup(h, s) IN append(d.h, d.s, cs, pol)

\* ------------------------------------------------------------- the tree
\* A tree is [root, nodes]: nodes[i] is the ast.Node at pointer i, a record
\* [kind, name, kids, files]: kind the concrete type, name the Name of an
\* Ident (for a File: the Name of its Name ident), kids the child fields the
\* walker reads (field -> pointers; an absent field or <<>> is nil / empty),
\* files the Files map of a Package (key -> pointer).
Kids(n, f) == IF f \in DOMAIN n.kids THEN n.kids[f] ELSE <<>>
Has(n, f) == Len(Kids(n, f)) > 0
Kid(n, f) == Kids(n, f)[1]

\* the node types the switches of idComponent and walk have a case for
KnownKinds ==
  {"Comment", "CommentGroup", "Field", "FieldList", "BadExpr", "Ident",
   "BasicLit", "Ellipsis", "FuncLit", "CompositeLit", "ParenExpr",
   "SelectorExpr", "IndexExpr", "SliceExpr", "TypeAssertExpr", "CallExpr",
   "StarExpr", "UnaryExpr", "BinaryExpr", "KeyValueExpr", "ArrayType",
   "StructType", "FuncType", "InterfaceType", "MapType", "ChanType",
   "BadStmt", "DeclStmt", "EmptyStmt", "LabeledStmt", "ExprStmt", "SendStmt",
   "IncDecStmt", "AssignStmt", "GoStmt", "DeferStmt", "ReturnStmt",
   "BranchStmt", "BlockStmt", "IfStmt", "CaseClause", "SwitchStmt",
   "TypeSwitchStmt", "CommClause", "SelectStmt", "ForStmt", "RangeStmt",
   "ImportSpec", "ValueSpec", "TypeSpec", "BadDecl", "GenDecl", "FuncDecl",
   "File", "Package"}

\* a mutant of Panics: idComponent without its default case
PanicsNever(n) == FALSE

\* the default case of idComponent: panic("ast.walk") for any other node type
Panics(n) == n.kind \notin KnownKinds

\* a mutant of idComponent: only a File contributes a label of its own
idComponentFileOnly(n) == IF n.kind = "File" THEN n.name \o ".go" ELSE ""

\* a mutant of idComponent: a File is labelled by its type like any node
idComponentTypeOnly(n) == n.kind

\* idComponent: the label a node contributes itself: the File's package name
\* plus ".go", else reflect.TypeOf(node).Elem().Name()
idComponent(n) == IF n.kind = "File" THEN n.name \o ".go" ELSE n.kind

\* ----------------------------------------------- the statements of walk
\* The body of walk after the Visit call is compiled, per node, to the
\* sequence of path operations and calls its switch case executes.
IPush(c) == [op |-> "push", l |-> c, n |-> 0, cs |-> <<>>, body |-> <<>>]
IPop == [op |-> "pop", l |-> "", n |-> 0, cs |-> <<>>, body |-> <<>>]
\* walk(v, child, id) when cs = <<>>, walk(v, child, id.pushed(cs...)) else
IWalk(c, cs) == [op |-> "walk", l |-> "", n |-> c, cs |-> cs, body |-> <<>>]
\* walkXList(v, list, id) when cs = <<>>, walkXList(v, list, id.pushed(cs...)) else
ICall(body, cs) == [op |-> "call", l |-> "", n |-> 0, cs |-> cs, body |-> body]
\* for _, f := range n.Files { walk(v, f, id) }
IRange == [op |-> "range", l |-> "", n |-> 0, cs |-> <<>>, body |-> <<>>]

\* a mutant of IndexLoop: the loop starts at the second element
IndexLoopFromOne(list) ==
  Flatten([i \in 1..(Len(list) - 1) |->
             <<IPush(Itoa(i)), IWalk(list[i + 1], <<>>), IPop>>])

\* for i, x := range list { id.push(strconv.Itoa(i)); walk(v, x, id); id.pop() }
\* (walkExprList, walkStmtList, walkDeclList and the loops written in line)
IndexLoop(list) ==
  Flatten([i \in 1..Len(list) |->
             <<IPush(Itoa(i - 1)), IWalk(list[i], <<>>), IPop>>])

\* walkIdentList: for _, x := range list { id.push(x.Name); walk(v, x, id); id.pop() }
IdentLoop(nodes, list) ==
  Flatten([i \in 1..Len(list) |->
             <<IPush(nodes[list[i]].name), IWalk(list[i], <<>>), IPop>>])

\* id.push(f); walk(v, n.f, id); id.pop()
One(n, f) == <<IPush(f), IWalk(Kid(n, f), <<>>), IPop>>
OptOne(n, f) == IF Has(n, f) THEN One(n, f) ELSE <<>>
\* walk(v, n.f, id.pushed(f))
OneC(n, f) == <<IWalk(Kid(n, f), <<f>>)>>
OptOneC(n, f) == IF Has(n, f) THEN OneC(n, f) ELSE <<>>
\* id.push(f); for i, x := range n.f { ... }; id.pop()
Loop(n, f) == <<IPush(f)>> \o IndexLoop(Kids(n, f)) \o <<IPop>>
\* id.push(f); walkXList(v, n.f, id); id.pop()
List(n, f) == <<IPush(f), ICall(IndexLoop(Kids(n, f)), <<>>), IPop>>
\* walkXList(v, n.f, id.pushed(f))
ListC(n, f) == <<ICall(IndexLoop(Kids(n, f)), <<f>>)>>
\* id.push(f); walkIdentList(v, n.f, id); id.pop()
Idents(nodes, n, f) == <<IPush(f), ICall(IdentLoop(nodes, Kids(n, f)), <<>>), IPop>>

\* the node kinds walk and idComponent know
Leaves == {"Comment", "BadExpr", "Ident", "BasicLit", "BadStmt", "EmptyStmt",
           "BadDecl"}

\* the switch of walk (walk.go), one case per node type
Body(nodes, n) ==
  LET k == n.kind IN
  CASE k \in Leaves -> <<>>
    [] k = "CommentGroup" -> Loop(n, "List")
    [] k = "Field" -> OptOneC(n, "Doc") \o Idents(nodes, n, "Names")
                        \o One(n, "Type") \o OptOneC(n, "Tag")
                        \o OptOneC(n, "Comment")
    [] k = "FieldList" -> Loop(n, "List")
    [] k = "Ellipsis" -> OptOneC(n, "Elt")
    [] k = "FuncLit" -> OneC(n, "Type") \o OneC(n, "Body")
    [] k = "CompositeLit" -> OptOneC(n, "Type") \o ListC(n, "Elts")
    [] k = "ParenExpr" -> One(n, "X")
    [] k = "SelectorExpr" -> One(n, "X") \o One(n, "Sel")
    [] k = "IndexExpr" -> One(n, "X") \o One(n, "Index")
    [] k = "SliceExpr" -> One(n, "X") \o OptOne(n, "Low") \o OptOne(n, "High")
    [] k = "TypeAssertExpr" -> OneC(n, "X") \o OptOneC(n, "Type")
    [] k = "CallExpr" -> One(n, "Fun") \o List(n, "Args")
    [] k = "StarExpr" -> One(n, "X")
    [] k = "UnaryExpr" -> One(n, "X")
    [] k = "BinaryExpr" -> One(n, "X") \o One(n, "Y")
    [] k = "KeyValueExpr" -> One(n, "Key") \o One(n, "Value")
    [] k = "ArrayType" -> OptOneC(n, "Len") \o OneC(n, "Elt")
    [] k = "StructType" -> OneC(n, "Fields")
    [] k = "FuncType" -> OptOneC(n, "Params") \o OptOneC(n, "Results")
    [] k = "InterfaceType" -> OneC(n, "Methods")
    [] k = "MapType" -> OneC(n, "Key") \o OneC(n, "Value")
    [] k = "ChanType" -> OneC(n, "Value")
    [] k = "DeclStmt" -> One(n, "Decl")
    [] k = "LabeledStmt" -> OneC(n, "Label") \o OneC(n, "Stmt")
    [] k = "ExprStmt" -> One(n, "X")
    [] k = "SendStmt" -> OneC(n, "Chan") \o OneC(n, "Value")
    [] k = "IncDecStmt" -> OneC(n, "X")
    [] k = "AssignStmt" -> List(n, "Lhs") \o List(n, "Rhs")
    [] k = "GoStmt" -> OneC(n, "Call")
    [] k = "DeferStmt" -> OneC(n, "Call")
    [] k = "ReturnStmt" -> List(n, "Results")
    [] k = "BranchStmt" -> OptOneC(n, "Label")
    [] k = "BlockStmt" -> List(n, "List")
    [] k = "IfStmt" -> OptOne(n, "Init") \o One(n, "Cond") \o One(n, "Body")
                         \o OptOneC(n, "Else")
    [] k = "CaseClause" -> ListC(n, "List") \o ListC(n, "Body")
    [] k = "SwitchStmt" -> OptOneC(n, "Init") \o OptOneC(n, "Tag")
                             \o OneC(n, "Body")
    [] k = "TypeSwitchStmt" -> OptOneC(n, "Init") \o OneC(n, "Assign")
                                 \o OneC(n, "Body")
    [] k = "CommClause" -> OptOneC(n, "Comm") \o ListC(n, "Body")
    [] k = "SelectStmt" -> OneC(n, "Body")
    [] k = "ForStmt" -> OptOneC(n, "Init") \o OptOneC(n, "Cond")
                          \o OptOneC(n, "Post") \o OneC(n, "Body")
    [] k = "RangeStmt" -> OneC(n, "Key") \o OptOneC(n, "Value")
                            \o OneC(n, "X") \o OneC(n, "Body")
    [] k = "ImportSpec" -> OptOneC(n, "Doc") \o OptOneC(n, "Name")
                             \o OneC(n, "Path") \o OptOneC(n, "Comment")
    [] k = "ValueSpec" -> OptOne(n, "Doc") \o Idents(nodes, n, "Names")
                            \o OptOne(n, "Type") \o List(n, "Values")
                            \o OptOneC(n, "Comment")
    [] k = "TypeSpec" -> OptOneC(n, "Doc") \o OneC(n, "Name")
                           \o OneC(n, "Type") \o OptOneC(n, "Comment")
    [] k = "GenDecl" -> OptOne(n, "Doc") \o Loop(n, "Specs")
    [] k = "FuncDecl" -> OptOneC(n, "Doc") \o OptOneC(n, "Recv")
                           \o OneC(n, "Name") \o OneC(n, "Type")
                           \o OptOneC(n, "Body")
    [] k = "File" -> OptOneC(n, "Doc") \o OneC(n, "Name") \o ListC(n, "Decls")
    [] k = "Package" -> <<IPush("Files"), IRange, IPop>>
    [] OTHER -> <<>>

\* for _, f := range n.Files { walk(v, f, id.pushed("Files", f.Name.Name)) }
IRangeName == [op |-> "rangeName", l |-> "", n |-> 0, cs |-> <<>>, body |-> <<>>]
\* for i, x := range n.f { walk(v, x, id.pushed(f, strconv.Itoa(i))) }
PushedLoop(n, f) ==
  [i \in 1..Len(Kids(n, f)) |-> IWalk(Kids(n, f)[i], <<f, Itoa(i - 1)>>)]
\* walkIdentList(v, n.f, id.pushed(f))
IdentsC(nodes, n, f) == <<ICall(IdentLoop(nodes, Kids(n, f)), <<f>>)>>

\* the switch of walk in unnamed/part_000, one case per node type: every
\* child is walked under id.pushed(..); the CommentGroup case ends in id.pop()
BodyPart(nodes, n) ==
  LET k == n.kind IN
  CASE k \in Leaves -> <<>>
    [] k = "CommentGroup" -> PushedLoop(n, "List") \o <<IPop>>
    [] k = "Field" -> OptOneC(n, "Doc") \o IdentsC(nodes, n, "Names")
                        \o OneC(n, "Type") \o OptOneC(n, "Tag")
                        \o OptOneC(n, "Comment")
    [] k = "FieldList" -> PushedLoop(n, "List")
    [] k = "Ellipsis" -> OptOneC(n, "Elt")
    [] k = "FuncLit" -> OneC(n, "Type") \o OneC(n, "Body")
    [] k = "CompositeLit" -> OptOneC(n, "Type") \o ListC(n, "Elts")
    [] k = "ParenExpr" -> OneC(n, "X")
    [] k = "SelectorExpr" -> OneC(n, "X") \o OneC(n, "Sel")
    [] k = "IndexExpr" -> OneC(n, "X") \o OneC(n, "Index")
    [] k = "SliceExpr" -> OneC(n, "X") \o OptOneC(n, "Low") \o OptOneC(n, "High")
    [] k = "TypeAssertExpr" -> OneC(n, "X") \o OptOneC(n, "Type")
    [] k = "CallExpr" -> OneC(n, "Fun") \o ListC(n, "Args")
    [] k = "StarExpr" -> OneC(n, "X")
    [] k = "UnaryExpr" -> OneC(n, "X")
    [] k = "BinaryExpr" -> OneC(n, "X") \o OneC(n, "Y")
    [] k = "KeyValueExpr" -> OneC(n, "Key") \o OneC(n, "Value")
    [] k = "ArrayType" -> OptOneC(n, "Len") \o OneC(n, "Elt")
    [] k = "StructType" -> OneC(n, "Fields")
    [] k = "FuncType" -> OptOneC(n, "Params") \o OptOneC(n, "Results")
    [] k = "InterfaceType" -> OneC(n, "Methods")
    [] k = "MapType" -> OneC(n, "Key") \o OneC(n, "Value")
    [] k = "ChanType" -> OneC(n, "Value")
    [] k = "DeclStmt" -> OneC(n, "Decl")
    [] k = "LabeledStmt" -> OneC(n, "Label") \o OneC(n, "Stmt")
    [] k = "ExprStmt" -> OneC(n, "X")
    [] k = "SendStmt" -> OneC(n, "Chan") \o OneC(n, "Value")
    [] k = "IncDecStmt" -> OneC(n, "X")
    [] k = "AssignStmt" -> ListC(n, "Lhs") \o ListC(n, "Rhs")
    [] k = "GoStmt" -> OneC(n, "Call")
    [] k = "DeferStmt" -> OneC(n, "Call")
    [] k = "ReturnStmt" -> ListC(n, "Results")
    [] k = "BranchStmt" -> OptOneC(n, "Label")
    [] k = "BlockStmt" -> ListC(n, "List")
    [] k = "IfStmt" -> OptOneC(n, "Init") \o OneC(n, "Cond") \o OneC(n, "Body")
                         \o OptOneC(n, "Else")
    [] k = "CaseClause" -> ListC(n, "List") \o ListC(n, "Body")
    [] k = "SwitchStmt" -> OptOneC(n, "Init") \o OptOneC(n, "Tag")
                             \o OneC(n, "Body")
    [] k = "TypeSwitchStmt" -> OptOneC(n, "Init") \o OneC(n, "Assign")
                                 \o OneC(n, "Body")
    [] k = "CommClause" -> OptOneC(n, "Comm") \o ListC(n, "Body")
    [] k = "SelectStmt" -> OneC(n, "Body")
    [] k = "ForStmt" -> OptOneC(n, "Init") \o OptOneC(n, "Cond")
                          \o OptOneC(n, "Post") \o OneC(n, "Body")
    [] k = "RangeStmt" -> OneC(n, "Key") \o OptOneC(n, "Value")
                            \o OneC(n, "X") \o OneC(n, "Body")
    [] k = "ImportSpec" -> OptOneC(n, "Doc") \o OptOneC(n, "Name")
                             \o OneC(n, "Path") \o OptOneC(n, "Comment")
    [] k = "ValueSpec" -> OptOneC(n, "Doc") \o IdentsC(nodes, n, "Names")
                            \o OptOneC(n, "Type") \o ListC(n, "Values")
                            \o OptOneC(n, "Comment")
    [] k = "TypeSpec" -> OptOneC(n, "Doc") \o OneC(n, "Name")
                           \o OneC(n, "Type") \o OptOneC(n, "Comment")
    [] k = "GenDecl" -> OptOneC(n, "Doc") \o PushedLoop(n, "Specs")
    [] k = "FuncDecl" -> OptOneC(n, "Doc") \o OptOneC(n, "Recv")
                           \o OneC(n, "Name") \o OneC(n, "Type")
                           \o OptOneC(n, "Body")
    [] k = "File" -> OptOneC(n, "Doc") \o OneC(n, "Name") \o ListC(n, "Decls")
    [] k = "Package" -> <<IRangeName>>
    [] OTHER -> <<>>

\* ---------------------------------------------------------- input trees
Node(k, nm, kids) == [kind |-> k, name |-> nm, kids |-> kids, files |-> <<>>]
Leaf(k) == Node(k, "", <<>>)
Ident(nm) == Node("Ident", nm, <<>>)

\* the names an identifier of an input tree may carry
IdentNames == {"_", "x"}

\* the key of the i-th file of a Package's Files map
FileKey(i) == "f" \o Itoa(i) \o ".go"

\* parser.ParseExpr("1 + 2 + 3"): (1 + 2) + 3
ExprTree ==
  [root |-> 1,
   nodes |-> <<Node("BinaryExpr", "", [X |-> <<2>>, Y |-> <<5>>]),
               Node("BinaryExpr", "", [X |-> <<3>>, Y |-> <<4>>]),
               Leaf("BasicLit"), Leaf("BasicLit"), Leaf("BasicLit")>>]

\* f(1, .., k)
CallTree(k) ==
  [root |-> 1,
   nodes |-> <<Node("CallExpr", "", [Fun |-> <<2>>, Args |-> [i \in 1..k |-> 2 + i]]),
               Ident("f")>> \o [i \in 1..k |-> Leaf("BasicLit")]]

\* var <names> int
SpecTree(names) ==
  [root |-> 1,
   nodes |-> <<Node("GenDecl", "", [Specs |-> <<2>>]),
               Node("ValueSpec", "",
                    [Names |-> [i \in 1..Len(names) |-> 3 + i], Type |-> <<3>>]),
               Ident("int")>> \o [i \in 1..Len(names) |-> Ident(names[i])]]

\* a Package of k files, each `package foo` with nothing else in it
PkgTree(k) ==
  [root |-> 1,
   nodes |-> <<[kind |-> "Package", name |-> "", kids |-> <<>>,
                files |-> [key \in {FileKey(i) : i \in 0..(k - 1)} |->
                             2 * (CHOOSE i \in 0..(k - 1) : FileKey(i) = key) + 2]]>>
             \o Flatten([i \in 1..k |->
                           <<Node("File", "foo", [Name |-> <<2 * i + 1>>]),
                             Ident("foo")>>])]

\* // c1 .. // ck
\* package foo
\* followed by k bad declarations
FileTree(k) ==
  [root |-> 1,
   nodes |-> <<Node("File", "foo",
                    [Doc |-> <<2>>, Name |-> <<3>>,
                     Decls |-> [i \in 1..k |-> 3 + k + i]]),
               Node("CommentGroup", "", [List |-> [i \in 1..k |-> 3 + i]]),
               Ident("foo")>>
             \o [i \in 1..k |-> Leaf("Comment")]
             \o [i \in 1..k |-> Leaf("BadDecl")]]

\* func (x T) m() { f(); return 1 }
FuncTree ==
  [root |-> 1,
   nodes |-> <<Node("FuncDecl", "",
                    [Recv |-> <<2>>, Name |-> <<6>>, Type |-> <<7>>, Body |-> <<9>>]),
               Node("FieldList", "", [List |-> <<3>>]),
               Node("Field", "", [Names |-> <<4>>, Type |-> <<5>>]),
               Ident("x"), Ident("T"), Ident("m"),
               Node("FuncType", "", [Params |-> <<8>>]),
               Node("FieldList", "", <<>>),
               Node("BlockStmt", "", [List |-> <<10, 13>>]),
               Node("ExprStmt", "", [X |-> <<11>>]),
               Node("CallExpr", "", [Fun |-> <<12>>]),
               Ident("f"),
               Node("ReturnStmt", "", [Results |-> <<14>>]),
               Leaf("BasicLit")>>]

\* where each node of a tree sits, read off the child fields
Up(nodes, c) ==
  LET slots == UNION {{<<p, f, i>> : f \in DOMAIN nodes[p].kids, i \in 1..Len(nodes)}
                        : p \in 1..Len(nodes)}
      at == {s \in slots : s[3] <= Len(nodes[s[1]].kids[s[2]])
                             /\ nodes[s[1]].kids[s[2]][s[3]] = c}
      keys == UNION {{<<p, key>> : key \in DOMAIN nodes[p].files} : p \in 1..Len(nodes)}
      under == {s \in keys : nodes[s[1]].files[s[2]] = c}
  IN IF at # {}
     THEN LET s == CHOOSE s \in at : TRUE
          IN [p |-> s[1], f |-> s[2], i |-> s[3] - 1, key |-> ""]
     ELSE IF under # {}
     THEN LET s == CHOOSE s \in under : TRUE
          IN [p |-> s[1], f |-> "Files", i |-> 0, key |-> s[2]]
     ELSE [p |-> 0, f |-> "", i |-> 0, key |-> ""]

Located(t) ==
  [root |-> t.root, nodes |-> t.nodes,
   up |-> [c \in 1..Len(t.nodes) |-> Up(t.nodes, c)]]

RECURSIVE SeqsUpTo(_, _)
SeqsUpTo(S, k) ==
  IF k = 0 THEN {<<>>}
  ELSE LET R == SeqsUpTo(S, k - 1)
       IN R \cup {Append(s, x) : s \in {r \in R : Len(r) = k - 1}, x \in S}

Trees ==
  {Located(t) : t \in
     {ExprTree, FuncTree}
       \cup {CallTree(k) : k \in 0..MaxLen}
       \cup {SpecTree(ns) : ns \in SeqsUpTo(IdentNames, MaxLen) \ {<<>>}}
       \cup {PkgTree(k) : k \in 1..MaxFiles}
       \cup {FileTree(k) : k \in 1..MaxLen}}

\* ------------------------------------------------------------------ state
VARIABLES
  tree,    \* the AST handed to Map / Inspect (never written)
  prune,   \* the nodes at which the caller's function returns false
  swap,    \* the nodes at which the caller's Visitor returns another Visitor
  src,     \* the traversal in use: "walk.go" or "part_000"
  pol,     \* the allocator's growth rule
  status,  \* "idle", "walking", "done", "panic"
  run,     \* 1 for the first traversal of the tree, 2 for the second
  heap,    \* the backing arrays of all NodeId slices
  stack,   \* the Go call stack of walk and walkXList frames, top last
  log,     \* the Visit calls made so far: node, frame node, path, visitor
  m,       \* the map Map builds: node -> NodeId slice
  log1,    \* log of the first traversal, once finished
  m1       \* the map the first traversal returned

vars == <<tree, prune, swap, src, pol, status, run, heap, stack, log, m, log1, m1>>

NodeIds == 1..Len(tree.nodes)
Top == stack[Len(stack)]
Rest == SubSeq(stack, 1, Len(stack) - 1)
SetTop(f) == [stack EXCEPT ![Len(stack)] = f]

\* the frame of a call walk(v, node, id)
WalkFrame(c, v, id) ==
  [kind |-> "walk", node |-> c, id |-> id, v |-> v,
   prog |-> IF src = "walk.go" THEN Body(tree.nodes, tree.nodes[c])
            ELSE BodyPart(tree.nodes, tree.nodes[c]),
   pc |-> 1, entered |-> FALSE,
   deferred |-> FALSE,
   todo |-> DOMAIN tree.nodes[c].files]

\* the frame of a call walkXList(v, list, id); node is the caller's node
ListFrame(c, v, id, body) ==
  [kind |-> "list", node |-> c, id |-> id, v |-> v,
   prog |-> body, pc |-> 1, entered |-> TRUE, deferred |-> FALSE, todo |-> {}]

\* the function Map and collect hand to Inspect: true, or false at a pruned node
Keep(node) == node \notin prune

\* a mutant of Visit: the inspector stays the visitor whatever f returns
VisitAlways(v, node) == v

\* inspector.Visit: if f(node, id) { return f }; return nil
Visit(v, node) == IF Keep(node) THEN v ELSE NilV

\* a caller's Visitor (the interface, walk.go:15-17) that hands over: at a
\* node of swap it returns another Visitor, one no other call returns; at
\* any other node it behaves as the inspector
HandOver(v, node) == IF node \in swap THEN node + 1 ELSE Visit(v, node)

\* what a Visit call leaves behind: the call in the log, and for a node the
\* entry m[node] = id.dup()
Observe(h, s, node, of, v) ==
  LET d == dup(h, s) IN
  [log |-> Append(log, [node |-> node, of |-> of, id |-> Read(h, s), v |-> v]),
   h |-> IF node = NilNode THEN h ELSE d.h,
   m |-> IF node = NilNode THEN m
         ELSE [x \in DOMAIN m \cup {node} |-> IF x = node THEN d.s ELSE m[x]]]

\* after the return of the top frame
Returned == IF Len(stack) = 1 THEN "done" ELSE "walking"

Init ==
  /\ tree \in Trees
  /\ prune \in {S \in SUBSET (1..Len(tree.nodes)) : Cardinality(S) <= MaxPruned}
  /\ swap = {}
  /\ src = "walk.go"
  /\ pol \in {"exact", "double"}
  /\ status = "idle"
  /\ run = 1
  /\ heap = <<>>
  /\ stack = <<>>
  /\ log = <<>>
  /\ m = <<>>
  /\ log1 = <<>>
  /\ m1 = <<>>

\* Map -> Inspect -> Walk: id := make(NodeId, 0, 100); walk(v, n, id)
Walk ==
  /\ status = "idle"
  /\ LET r == MakeId(heap, IdCap) IN
       /\ heap' = r.h
       /\ stack' = <<WalkFrame(tree.root, 1, r.s)>>
  /\ status' = "walking"
  /\ UNCHANGED <<tree, prune, swap, src, pol, run, log, m, log1, m1>>

\* walk, lines 192-205: c := idComponent(node), which panics for a node type
\* it has no case for; push c and defer the pop; v = v.Visit(node, id);
\* return when v is nil; else enter the switch, whose default case panics
Enter ==
  /\ status = "walking"
  /\ Top.kind = "walk" /\ ~Top.entered
  /\ IF Panics(tree.nodes[Top.node])
     THEN /\ status' = "panic"
          /\ UNCHANGED <<stack, heap, log, m>>
     ELSE
     LET c == idComponent(tree.nodes[Top.node])
         r == IF c # "" THEN push(heap, Top.id, c, pol)
              ELSE [h |-> heap, s |-> Top.id]
         o == Observe(r.h, r.s, Top.node, Top.node, Top.v)
         w == HandOver(Top.v, Top.node)
     IN /\ log' = o.log
        /\ m' = o.m
        /\ heap' = o.h
        /\ IF w = NilV
           THEN /\ stack' = Rest
                /\ status' = IF c # "" /\ r.s.len = 0 THEN "panic" ELSE Returned
           ELSE /\ stack' = SetTop([Top EXCEPT !.id = r.s, !.v = w,
                                               !.entered = TRUE,
                                               !.deferred = (c # "")])
                /\ status' = IF tree.nodes[Top.node].kind \in KnownKinds
                             THEN status ELSE "panic"
  /\ UNCHANGED <<tree, prune, swap, src, pol, run, log1, m1>>

Running == status = "walking" /\ Top.entered /\ Top.pc <= Len(Top.prog)
Instr == Top.prog[Top.pc]

\* id.push(label)
DoPush ==
  /\ Running /\ Instr.op = "push"
  /\ LET r == push(heap, Top.id, Instr.l, pol) IN
       /\ heap' = r.h
       /\ stack' = SetTop([Top EXCEPT !.id = r.s, !.pc = @ + 1])
  /\ UNCHANGED <<tree, prune, swap, src, pol, status, run, log, m, log1, m1>>

\* id.pop(); slicing an empty slice to [:-1] panics
\* a mutant of DoPop: the statement after a child walk forgets to pop
DoPopStale ==
  /\ Running /\ Instr.op = "pop"
  /\ status' = status
  /\ stack' = SetTop([Top EXCEPT !.pc = @ + 1])
  /\ UNCHANGED <<tree, prune, swap, src, pol, run, heap, log, m, log1, m1>>

DoPop ==
  /\ Running /\ Instr.op = "pop"
  /\ IF Top.id.len = 0
     THEN status' = "panic" /\ stack' = stack
     ELSE status' = status
          /\ stack' = SetTop([Top EXCEPT !.id = pop(@), !.pc = @ + 1])
  /\ UNCHANGED <<tree, prune, swap, src, pol, run, heap, log, m, log1, m1>>

\* the NodeId a call passes: id itself, or id.pushed(cs...)
Arg(cs) == IF cs = <<>> THEN [h |-> heap, s |-> Top.id]
           ELSE pushed(heap, Top.id, cs, pol)

\* a mutant of CallWalk: the child is walked with the visitor the node was
\* visited with, not with the visitor that Visit returned
CallWalkOldV ==
  /\ status = "walking" /\ Top.entered /\ Top.pc <= Len(Top.prog)
  /\ Top.prog[Top.pc].op = "walk"
  /\ LET a == Arg(Top.prog[Top.pc].cs)
         i == CHOOSE i \in 1..Len(log) : log[i].node = Top.node
     IN /\ heap' = a.h
        /\ stack' = Append(SetTop([Top EXCEPT !.pc = @ + 1]),
                           WalkFrame(Top.prog[Top.pc].n, log[i].v, a.s))
  /\ UNCHANGED <<tree, prune, swap, src, pol, status, run, log, m, log1, m1>>

\* walk(v, child, id) and walk(v, child, id.pushed(..))
CallWalk ==
  /\ Running /\ Instr.op = "walk"
  /\ LET a == Arg(Instr.cs) IN
       /\ heap' = a.h
       /\ stack' = Append(SetTop([Top EXCEPT !.pc = @ + 1]),
                          WalkFrame(Instr.n, Top.v, a.s))
  /\ UNCHANGED <<tree, prune, swap, src, pol, status, run, log, m, log1, m1>>

\* walkIdentList / walkExprList / walkStmtList / walkDeclList (v, list, id)
CallList ==
  /\ Running /\ Instr.op = "call"
  /\ LET a == Arg(Instr.cs) IN
       /\ heap' = a.h
       /\ stack' = Append(SetTop([Top EXCEPT !.pc = @ + 1]),
                          ListFrame(Top.node, Top.v, a.s, Instr.body))
  /\ UNCHANGED <<tree, prune, swap, src, pol, status, run, log, m, log1, m1>>

\* a mutant of RangeFiles: each file is walked under the count of the files
\* walked before it
RangeFilesCounted ==
  /\ status = "walking" /\ Top.entered /\ Top.pc <= Len(Top.prog)
  /\ Top.prog[Top.pc].op = "range"
  /\ IF Top.todo = {}
     THEN stack' = SetTop([Top EXCEPT !.pc = @ + 1]) /\ heap' = heap
     ELSE \E key \in Top.todo :
            LET k == Cardinality(DOMAIN tree.nodes[Top.node].files)
                       - Cardinality(Top.todo)
                a == pushed(heap, Top.id, <<Itoa(k)>>, pol)
            IN /\ heap' = a.h
               /\ stack' = Append(SetTop([Top EXCEPT !.todo = @ \ {key}]),
                                  WalkFrame(tree.nodes[Top.node].files[key], Top.v, a.s))
  /\ UNCHANGED <<tree, prune, swap, src, pol, status, run, log, m, log1, m1>>

\* for _, f := range n.Files { walk(v, f, id) }: Go iterates a map in an
\* unspecified order, so any file not yet walked may come next
RangeFiles ==
  /\ Running /\ Instr.op = "range"
  /\ IF Top.todo = {}
     THEN stack' = SetTop([Top EXCEPT !.pc = @ + 1])
     ELSE \E key \in Top.todo :
            stack' = Append(SetTop([Top EXCEPT !.todo = @ \ {key}]),
                            WalkFrame(tree.nodes[Top.node].files[key], Top.v, Top.id))
  /\ UNCHANGED <<tree, prune, swap, src, pol, status, run, heap, log, m, log1, m1>>

\* walk, line 593 and the return: v.Visit(nil, id), then the deferred id.pop()
Sentinel ==
  /\ status = "walking"
  /\ Top.kind = "walk" /\ Top.entered /\ Top.pc > Len(Top.prog)
  /\ LET o == Observe(heap, Top.id, NilNode, Top.node, Top.v) IN
       /\ log' = o.log
       /\ m' = o.m
       /\ heap' = o.h
  /\ stack' = Rest
  /\ status' = IF Top.deferred /\ Top.id.len = 0 THEN "panic" ELSE Returned
  /\ UNCHANGED <<tree, prune, swap, src, pol, run, log1, m1>>

\* the return of a walkXList helper
ListReturn ==
  /\ status = "walking"
  /\ Top.kind = "list" /\ Top.pc > Len(Top.prog)
  /\ stack' = Rest
  /\ status' = Returned
  /\ UNCHANGED <<tree, prune, swap, src, pol, run, heap, log, m, log1, m1>>

\* the second call Map(x) on the same tree (TestMapStability): a fresh map
\* and a fresh path; Map's function never prunes
Again ==
  /\ status = "done" /\ run = 1 /\ prune = {}
  /\ run' = 2
  /\ status' = "idle"
  /\ log1' = log /\ m1' = m
  /\ log' = <<>> /\ m' = <<>>
  /\ stack' = <<>>
  /\ UNCHANGED <<tree, prune, swap, src, pol, heap>>

Next ==
  \/ Walk
  \/ Enter
  \/ DoPush
  \/ DoPop
  \/ CallWalk
  \/ CallList
  \/ RangeFiles
  \/ Sentinel
  \/ ListReturn
  \/ Again

Spec == Init /\ [][Next]_vars

\* a panic unwinds the stack: each frame is left, running at most its
\* deferred id.pop(); nothing recovers, and the program dies
Unwind ==
  /\ status = "panic"
  /\ stack # <<>>
  /\ stack' = Rest
  /\ UNCHANGED <<tree, prune, swap, src, pol, status, run, heap, log, m, log1, m1>>

\* ------------------------------------------ traversals by other visitors
\* most nodes at which the visitor hands over to another visitor
MaxSwapped == 1

\* the trees walked by a visitor that hands over
HandOverTrees ==
  {Located(t) : t \in
     {ExprTree} \cup {CallTree(k) : k \in 0..MaxLen} \cup {PkgTree(1)}}

\* Walk(v, n) of walk.go with a Visitor that prunes at the nodes of prune and
\* hands over at the nodes of swap
InitHandOver ==
  /\ tree \in HandOverTrees
  /\ prune \in {S \in SUBSET (1..Len(tree.nodes)) : Cardinality(S) <= MaxPruned}
  /\ swap \in {S \in SUBSET ((1..Len(tree.nodes)) \ prune) : Cardinality(S) <= MaxSwapped}
  /\ src = "walk.go"
  /\ pol \in {"exact", "double"}
  /\ status = "idle"
  /\ run = 1
  /\ heap = <<>>
  /\ stack = <<>>
  /\ log = <<>>
  /\ m = <<>>
  /\ log1 = <<>>
  /\ m1 = <<>>

SpecHandOver == InitHandOver /\ [][Next]_vars

\* ----------------------------------------- trees with an unknown node type
\* tree t with node c turned into a node of a type the walker has no case
\* for (go/ast gained IndexListExpr after walk.go was written); c = 0: as is
WithUnknown(t, c) ==
  IF c = 0 THEN t
  ELSE [t EXCEPT !.nodes[c] = Node("IndexListExpr", "", <<>>)]

FatalTrees ==
  {Located(WithUnknown(t, c)) :
     <<t, c>> \in {<<t, c>> \in
        ({ExprTree} \cup {CallTree(k) : k \in 0..MaxLen}
           \cup {PkgTree(k) : k \in 1..MaxFiles}) \X (0..(2 * MaxFiles + MaxLen + 2)) :
        c <= Len(t.nodes)}}

InitFatal ==
  /\ tree \in FatalTrees
  /\ prune \in {S \in SUBSET (1..Len(tree.nodes)) : Cardinality(S) <= MaxPruned}
  /\ swap = {}
  /\ src = "walk.go"
  /\ pol \in {"exact", "double"}
  /\ status = "idle"
  /\ run = 1
  /\ heap = <<>>
  /\ stack = <<>>
  /\ log = <<>>
  /\ m = <<>>
  /\ log1 = <<>>
  /\ m1 = <<>>

NextFatal ==
  \/ Next
  \/ Unwind

SpecFatal == InitFatal /\ [][NextFatal]_vars

\* ------------------------------------------- the walker of unnamed/part_000
\* Walk of part_000: walk(v, node, make(NodeId, 0))
WalkPart ==
  /\ status = "idle"
  /\ LET r == MakeId(heap, 0) IN
       /\ heap' = r.h
       /\ stack' = <<WalkFrame(tree.root, 1, r.s)>>
  /\ status' = "walking"
  /\ UNCHANGED <<tree, prune, swap, src, pol, run, log, m, log1, m1>>

\* for _, f := range n.Files { walk(v, f, id.pushed("Files", f.Name.Name)) },
\* in the unspecified order of a map
RangeFilesPart ==
  /\ Running /\ Instr.op = "rangeName"
  /\ IF Top.todo = {}
     THEN stack' = SetTop([Top EXCEPT !.pc = @ + 1]) /\ heap' = heap
     ELSE \E key \in Top.todo :
            LET f == tree.nodes[Top.node].files[key]
                a == pushed(heap, Top.id,
                            <<"Files", tree.nodes[Kid(tree.nodes[f], "Name")].name>>,
                            pol)
            IN /\ heap' = a.h
               /\ stack' = Append(SetTop([Top EXCEPT !.todo = @ \ {key}]),
                                  WalkFrame(f, Top.v, a.s))
  /\ UNCHANGED <<tree, prune, swap, src, pol, status, run, log, m, log1, m1>>

\* // c1 .. // ck, a comment group on its own
CommentTree(k) ==
  [root |-> 1,
   nodes |-> <<Node("CommentGroup", "", [List |-> [i \in 1..k |-> 1 + i]])>>
             \o [i \in 1..k |-> Leaf("Comment")]]

PartTrees ==
  {Located(t) : t \in
     {ExprTree, FuncTree}
       \cup {CommentTree(k) : k \in 0..MaxLen}
       \cup {CallTree(k) : k \in 0..MaxLen}
       \cup {PkgTree(k) : k \in 1..MaxFiles}
       \cup {FileTree(k) : k \in 1..MaxLen}}

InitPart ==
  /\ tree \in PartTrees
  /\ prune \in {S \in SUBSET (1..Len(tree.nodes)) : Cardinality(S) <= MaxPruned}
  /\ swap = {}
  /\ src = "part_000"
  /\ pol \in {"exact", "double"}
  /\ status = "idle"
  /\ run = 1
  /\ heap = <<>>
  /\ stack = <<>>
  /\ log = <<>>
  /\ m = <<>>
  /\ log1 = <<>>
  /\ m1 = <<>>

NextPart ==
  \/ WalkPart
  \/ Enter
  \/ DoPush
  \/ DoPop
  \/ CallWalk
  \/ CallList
  \/ RangeFilesPart
  \/ Sentinel
  \/ ListReturn
  \/ Again

SpecPart == InitPart /\ [][NextPart]_vars

\* ------------------------------------------- the shape of the input tree
\* (read off the tree alone, not off the walker)
\* tree.up[c] locates node c: its parent p (0 for the root), the field f and
\* zero-based index i it sits at, or the key of the Files map it sits under.
ChildrenOf(p) == {c \in NodeIds : tree.up[c].p = p}
ParentOf(c) == tree.up[c].p
InFiles(c) == tree.up[c].key # ""
KeyOf(c) == tree.up[c].key
FieldOf(c) == tree.up[c].f
IndexOf(c) == tree.up[c].i

RECURSIVE Ancestors(_, _)
Ancestors(c, d) ==
  IF d = 0 \/ ParentOf(c) = 0 THEN {}
  ELSE {ParentOf(c)} \cup Ancestors(ParentOf(c), d - 1)
Desc(n) == {c \in NodeIds : n \in Ancestors(c, Len(tree.nodes))}

\* the fields of go/ast that hold a slice of nodes; the two []*ast.Ident ones
IdentListFields == {<<"Field", "Names">>, <<"ValueSpec", "Names">>}
ListFields ==
  IdentListFields \cup
  {<<"CommentGroup", "List">>, <<"FieldList", "List">>, <<"CompositeLit", "Elts">>,
   <<"CallExpr", "Args">>, <<"AssignStmt", "Lhs">>, <<"AssignStmt", "Rhs">>,
   <<"ReturnStmt", "Results">>, <<"BlockStmt", "List">>, <<"CaseClause", "List">>,
   <<"CaseClause", "Body">>, <<"CommClause", "Body">>, <<"ValueSpec", "Values">>,
   <<"GenDecl", "Specs">>, <<"File", "Decls">>}
Slot(c) == <<tree.nodes[ParentOf(c)].kind, FieldOf(c)>>

\* ------------------------------------------------------ reading the log
Visits(n) == {i \in 1..Len(log) : log[i].node = n}
Sentinels(n) == {i \in 1..Len(log) : log[i].node = NilNode /\ log[i].of = n}
Visited == {log[i].node : i \in 1..Len(log)} \ {NilNode}
VisitOf(n) == CHOOSE i \in Visits(n) : TRUE
PathOf(n) == log[VisitOf(n)].id
\* the collect sequence: the nodes of the non-nil Visit calls, in call order
NodeCalls(l) == SelectSeq(l, LAMBDA e : e.node # NilNode)
Pairs(l) == [i \in 1..Len(l) |-> <<l[i].node, String(l[i].id)>>]
ExpectedOwnLabel(n) ==
  IF tree.nodes[n].kind = "File" THEN tree.nodes[n].name \o ".go"
  ELSE tree.nodes[n].kind

\* ------------------------------------------------------------- claims

\* C1 (as claimed): with a visitor that never prunes, any two distinct
\* visited nodes of one traversal have different identifier strings.
C1_UniqueIds ==
  prune = {} =>
    \A i, j \in 1..Len(log) :
      (log[i].node # NilNode /\ log[j].node # NilNode /\ log[i].node # log[j].node)
        => String(log[i].id) # String(log[j].id)

\* C2 (as claimed): once the traversal is over, no descendant of a node n
\* whose Visit returned nil was visited, and the sentinel call Visit(nil, path)
\* for n was made.
C2_SentinelAfterPrune ==
  status = "done" =>
    \A n \in prune \cap Visited :
      Desc(n) \cap Visited = {} /\ Sentinels(n) # {}

\* C2 (amended): no descendant of a node n whose Visit returned nil is ever
\* visited and NO sentinel call is made for n; the sentinel call is made,
\* exactly once, for the nodes whose Visit returned a visitor.
C2_PrunedSubtreeSilent ==
  /\ \A n \in prune \cap Visited : Desc(n) \cap Visited = {} /\ Sentinels(n) = {}
  /\ \A n \in Visited \ prune : Cardinality(Sentinels(n)) <= 1
  /\ status = "done" => \A n \in Visited \ prune : Cardinality(Sentinels(n)) = 1

\* C2 witness: a traversal that pruned a node with children, went on to other
\* nodes and finished.
C2_Witness ==
  /\ status = "done"
  /\ \E n \in prune \cap Visited :
       /\ Desc(n) # {}
       /\ \E i \in 1..Len(log) : i > VisitOf(n) /\ log[i].node # NilNode

\* visited children of one list slot come in increasing index order
ListOrder ==
  \A c, d \in Visited \ {tree.root} :
    (/\ ~InFiles(c) /\ ~InFiles(d)
     /\ ParentOf(c) = ParentOf(d) /\ FieldOf(c) = FieldOf(d)
     /\ IndexOf(c) < IndexOf(d))
      => VisitOf(c) < VisitOf(d)

\* C3 (as claimed): a child in a single-child slot F of a node with identifier
\* P has identifier P/F, the i-th child of a list slot F has P/F/i, list
\* children in increasing index order; for 1 + 2 + 3 the left operand is
\* BinaryExpr/X and the literal 3 is BinaryExpr/Y.
C3_ChildIdIsParentSlot ==
  /\ \A c \in Visited \ {tree.root} :
       ~InFiles(c) =>
         String(PathOf(c)) =
           String(PathOf(ParentOf(c))) \o "/" \o FieldOf(c)
             \o (IF Slot(c) \in ListFields THEN "/" \o Itoa(IndexOf(c)) ELSE "")
  /\ ListOrder
  /\ tree = Located(ExprTree) =>
       /\ 2 \in Visited => String(PathOf(2)) = "BinaryExpr/X"
       /\ 5 \in Visited => String(PathOf(5)) = "BinaryExpr/Y"

\* the labels walk puts between a parent's path and the child's own label
SlotLabels(c) ==
  IF Slot(c) \in IdentListFields THEN <<FieldOf(c), tree.nodes[c].name>>
  ELSE IF Slot(c) \in ListFields THEN <<FieldOf(c), Itoa(IndexOf(c))>>
  ELSE <<FieldOf(c)>>

\* C3 (amended): the child's identifier also ends in the child's own label L
\* (its type name; name + ".go" for a File): P/F/L for a single-child slot,
\* P/F/i/L for the i-th child of a list slot, except that an entry of an
\* identifier list (Field.Names, ValueSpec.Names) has P/F/<its name>/Ident;
\* list children come in increasing index order; for 1 + 2 + 3 the left
\* operand is BinaryExpr/X/BinaryExpr and the literal 3 BinaryExpr/Y/BasicLit.
C3_ChildIdIsParentSlotOwn ==
  /\ \A c \in Visited \ {tree.root} :
       ~InFiles(c) =>
         String(PathOf(c)) =
           String(PathOf(ParentOf(c))) \o "/" \o String(SlotLabels(c))
             \o "/" \o ExpectedOwnLabel(c)
  /\ ListOrder
  /\ tree = Located(ExprTree) =>
       /\ 2 \in Visited => String(PathOf(2)) = "BinaryExpr/X/BinaryExpr"
       /\ 5 \in Visited => String(PathOf(5)) = "BinaryExpr/Y/BasicLit"

\* C3 witness: a finished traversal that visited the third child of an
\* index-labelled list slot.
C3_Witness ==
  /\ status = "done"
  /\ \E c \in Visited \ {tree.root} :
       ~InFiles(c) /\ Slot(c) \in ListFields \ IdentListFields /\ IndexOf(c) = 2

\* C4: after Map ran twice on the same tree, both maps have the same keys
\* and give every node the same identifier string, in whatever order the
\* files of a Package were iterated.
C4_MapStable ==
  (run = 2 /\ status = "done") =>
    /\ DOMAIN m1 = DOMAIN m
    /\ \A n \in DOMAIN m : String(Read(heap, m1[n])) = String(Read(heap, m[n]))

\* C4 witness: two finished Map calls on a Package that iterated its files
\* in different orders.
C4_Witness ==
  /\ run = 2 /\ status = "done"
  /\ DOMAIN m = NodeIds
  /\ Pairs(NodeCalls(log)) # Pairs(NodeCalls(log1))

\* C5: the identifier recorded for the root is one label, the root's own
\* label; for the root of 1 + 2 + 3 it is "BinaryExpr".
C5_RootId ==
  tree.root \in DOMAIN m =>
    /\ Len(Read(heap, m[tree.root])) = 1
    /\ String(Read(heap, m[tree.root])) = ExpectedOwnLabel(tree.root)
    /\ tree = Located(ExprTree) => String(Read(heap, m[tree.root])) = "BinaryExpr"

\* C5 witness: Map returned for 1 + 2 + 3 with an entry for the root.
C5_Witness ==
  status = "done" /\ tree = Located(ExprTree) /\ prune = {} /\ tree.root \in DOMAIN m

\* C6: with a visitor that never prunes, no node is visited twice, a node is
\* visited after its parent, and in the finished sequence of visited nodes
\* every node is there once, the root first, each node directly followed by
\* exactly its descendants (depth-first pre-order).
C6_PreOrderOnce ==
  prune = {} =>
    /\ \A n \in NodeIds : Cardinality(Visits(n)) <= 1
    /\ \A c \in Visited \ {tree.root} :
         ParentOf(c) \in Visited /\ VisitOf(ParentOf(c)) < VisitOf(c)
    /\ status = "done" =>
         LET s == NodeCalls(log) IN
           /\ Len(s) = Cardinality(NodeIds)
           /\ Visited = NodeIds
           /\ s[1].node = tree.root
           /\ \A i \in 1..Len(s) :
                LET d == Desc(s[i].node) IN
                  /\ i + Cardinality(d) <= Len(s)
                  /\ {s[j].node : j \in (i + 1)..(i + Cardinality(d))} = d

\* C6 witness: a finished never-pruning traversal of a tree in which a node
\* has several children and one of them has descendants of its own.
C6_Witness ==
  /\ status = "done" /\ prune = {}
  /\ \E n \in NodeIds :
       /\ Cardinality(ChildrenOf(n)) >= 2
       /\ \E c \in ChildrenOf(n) : Desc(c) # {}

\* C7: a File named foo is visited with a path whose last label is "foo.go":
\* the name plus ".go", neither the type name nor an index.
C7_FileLabel ==
  \A i \in 1..Len(log) :
    (log[i].node # NilNode /\ tree.nodes[log[i].node].kind = "File") =>
      LET last == log[i].id[Len(log[i].id)] IN
        /\ last = tree.nodes[log[i].node].name \o ".go"
        /\ tree.nodes[log[i].node].name = "foo" => last = "foo.go"
        /\ last # "File"
        /\ last \notin {Itoa(k) : k \in 0..MaxFiles}

\* C7 witness: two files of one Package were visited.
C7_Witness ==
  \E c, d \in Visited :
    /\ c # d
    /\ tree.nodes[c].kind = "File" /\ tree.nodes[d].kind = "File"
    /\ InFiles(c) /\ InFiles(d) /\ ParentOf(c) = ParentOf(d)

\* the slot labels the claim C8 states
ClaimedSlotLabels(c) ==
  IF InFiles(c) THEN <<"Files", KeyOf(c)>>
  ELSE IF Slot(c) \in ListFields THEN <<FieldOf(c), Itoa(IndexOf(c))>>
  ELSE <<FieldOf(c)>>

\* C8 (as claimed): a child is entered under its parent's path plus the slot
\* label: the field name, the field name and the index for every list slot,
\* the field name and the map key for Package.Files; and the label is gone
\* when the parent's sentinel call is made.
C8_SlotLabelling ==
  /\ \A c \in Visited \ {tree.root} :
       SubSeq(PathOf(c), 1, Len(PathOf(c)) - 1)
         = PathOf(ParentOf(c)) \o ClaimedSlotLabels(c)
  /\ \A i \in 1..Len(log) :
       log[i].node = NilNode => log[i].id = PathOf(log[i].of)

\* C9 (as claimed): two runs of Walk with the same never-pruning visitor on
\* the same tree deliver the same (node, identifier) observations in the
\* same order.
C9_SameObservations ==
  (run = 2 /\ status = "done") => Pairs(log) = Pairs(log1)

\* C10: an entry of the map equals the path that was passed to Visit for its
\* node, at every later step of the traversal and after Map returned (also
\* while the next Map call runs).
C10_FrozenEntries ==
  /\ \A n \in DOMAIN m : Read(heap, m[n]) = PathOf(n)
  /\ \A n \in DOMAIN m1 :
       \E i \in 1..Len(log1) : log1[i].node = n /\ Read(heap, m1[n]) = log1[i].id

\* C10 witness: Map returned after recording a node, leaving its subtree
\* and walking a sibling subtree over the same backing array.
C10_Witness ==
  /\ status = "done"
  /\ \E c, d \in DOMAIN m :
       /\ c # d /\ c # tree.root /\ d # tree.root
       /\ VisitOf(c) < VisitOf(d)
       /\ Len(PathOf(c)) = Len(PathOf(d))

\* the visitor the Visit call at node p returned (p visited, not pruned)
Returns(p) == IF p \in swap THEN p + 1 ELSE log[VisitOf(p)].v

Unknown == {n \in NodeIds : tree.nodes[n].kind \notin KnownKinds}

\* C12: Visit is never called for a node of an unknown type; the step that
\* reaches such a node is a panic that makes no Visit call; from the panic
\* on no Visit call is made and the traversal never resumes; a traversal that
\* returns has reached no such node.
C12_UnknownFatal ==
  /\ [](\A i \in 1..Len(log) : log[i].of \notin Unknown)
  /\ [](status = "done" =>
          \A n \in Unknown : n # tree.root /\ ParentOf(n) \notin Visited \ prune)
  /\ [][(status = "walking" /\ Top.kind = "walk" /\ ~Top.entered
            /\ Top.node \in Unknown)
          => (status' = "panic" /\ log' = log /\ m' = m)]_vars
  /\ [][status = "panic" => (status' = "panic" /\ log' = log /\ m' = m)]_vars

\* C12 witness: the program died of the panic after some Visit calls, with a
\* later sibling of the unknown node still unvisited.
C12_Witness ==
  /\ status = "panic" /\ stack = <<>>
  /\ Len(log) > 0
  /\ \E n \in Unknown, s \in NodeIds \ Visited :
       n # tree.root /\ ParentOf(s) = ParentOf(n) /\ IndexOf(s) > IndexOf(n)
         /\ FieldOf(s) = FieldOf(n)

\* the labels under which walk.go enters child c of its parent: the slot
\* labels, "Files" alone for a file of a Package
EnteredUnder(c) == IF InFiles(c) THEN <<"Files">> ELSE SlotLabels(c)

\* the labels contributed, root first, by the nodes enclosing n and by n
RECURSIVE ChainPath(_, _)
ChainPath(n, d) ==
  IF d = 0 \/ ParentOf(n) = 0 THEN <<ExpectedOwnLabel(n)>>
  ELSE ChainPath(ParentOf(n), d - 1) \o EnteredUnder(n) \o <<ExpectedOwnLabel(n)>>

C14_PushPopBalance ==
  /\ status # "panic"
  /\ \A n \in Visited : \A j \in Sentinels(n) : log[j].id = PathOf(n)

\* C15: in a traversal by walk.go the path of a visited non-root node starts
\* with the whole path of its parent and is longer by the slot labels and one
\* own label: 2 labels for a single-child slot or a file of a Package, 3 for
\* an element of a list; so the identifier of a visited descendant of n is
\* n's identifier, then "/", then the rest.
C15_ParentPathIsPrefix ==
  /\ \A c \in Visited \ {tree.root} :
       /\ ParentOf(c) \in Visited
       /\ LET p == PathOf(ParentOf(c))
              q == PathOf(c)
          IN /\ Len(q) = Len(p) + (IF ~InFiles(c) /\ Slot(c) \in ListFields
                                   THEN 3 ELSE 2)
             /\ SubSeq(q, 1, Len(p)) = p
  /\ \A n \in Visited : \A d \in Desc(n) \cap Visited :
       LET p == PathOf(n)
           q == PathOf(d)
       IN /\ Len(p) < Len(q)
          /\ String(q) = String(p) \o "/" \o String(SubSeq(q, Len(p) + 1, Len(q)))

\* C15 witness: a finished traversal that visited an element of a list whose
\* parent is not the root, under a single-child slot of the root.
C15_Witness ==
  /\ status = "done"
  /\ \E c \in Visited \ {tree.root} :
       /\ Slot(c) \in ListFields
       /\ ParentOf(c) # tree.root
       /\ Slot(ParentOf(c)) \notin ListFields
       /\ Len(PathOf(c)) = Len(PathOf(tree.root)) + 5

=============================================================================
